---- MODULE Spec2Model ----
(***************************************************************************)
(* A model of the teensy.rs hardware abstraction layer: the clock          *)
(* generator typestate chain (mcg.rs), the system-integration singleton    *)
(* and its clock gates (sim.rs) and the port / pin / capability handles    *)
(* (port.rs).  Registers are integers of their width, handles are counted  *)
(* in bags so that a duplicate handle is a state the model can express,    *)
(* and every panic is a halt: the panic handler of main.rs loops forever   *)
(* and nothing is unwound.                                                 *)
(***************************************************************************)
EXTENDS Integers, Sequences, FiniteSets, Bags, TLC

VARIABLES
    MCG_INIT,   \* mcg.rs: static MCG_INIT
    mcgs,       \* bag of the live clock-generator handles the caller holds, by form
    c1, c2, c5, c6, s, \* McgRegs: the control registers the driver writes, the status register
    pc,         \* position of the driver inside a clock transition ("idle" outside)
    SIM_INIT,   \* sim.rs: static SIM_INIT
    sims,       \* number of live Sim instances
    clkdiv1,    \* SimRegs.clkdiv1
    gate,       \* the clock-gate bit-band words, by address
    ports,      \* the live Port objects, by the address the object lives at
    uarts,      \* bag of the gate addresses held by live Uart instances
    pins,       \* bag of the live Pin handles (bare or embedded in a capability)
    pcr,        \* PortRegs.pcr of each port register block
    wr,         \* the GPIO bit-band words written by the last operation
    call,       \* the last operation called and its arguments
    fatal,      \* "none", or the panic that halted the system
    seen,       \* what the clock transitions have written and observed so far
    racers      \* the callers that enter a guarded constructor at the same time

mcgVars == <<MCG_INIT, mcgs, c1, c2, c5, c6, s, pc>>
simVars == <<SIM_INIT, sims, clkdiv1>>
portVars == <<gate, ports, uarts, pins, pcr, wr>>
vars == <<MCG_INIT, mcgs, c1, c2, c5, c6, s, pc, SIM_INIT, sims, clkdiv1,
          gate, ports, uarts, pins, pcr, wr, call, fatal, seen, racers>>

----------------------------------------------------------------------------
(* Bit-field helpers (bit_field::BitField as the driver uses it).          *)

GetBit(v, i) ==
    (v \div 2^i) % 2 = 1

GetBits(v, lo, hi) ==
    (v \div 2^lo) % 2^(hi - lo)

SetBits(v, lo, hi, x) ==
    v - GetBits(v, lo, hi) * 2^lo + (x % 2^(hi - lo)) * 2^lo

SetBit(v, i, b) ==
    SetBits(v, i, i + 1, IF b THEN 1 ELSE 0)

Byte == 0 .. 255

(* A u32 register, bit by bit (bit 0 the least significant), and the       *)
(* set_bits and get_bits of bit_field on it.                               *)
Zero32 ==
    [i \in 0 .. 31 |-> 0]

SetBits32(v, lo, hi, x) ==
    [i \in 0 .. 31 |-> IF i >= lo /\ i < hi THEN (x \div 2^(i - lo)) % 2 ELSE v[i]]

RECURSIVE GetBits32(_, _, _)
GetBits32(v, lo, hi) ==
    IF lo >= hi THEN 0 ELSE v[lo] + 2 * GetBits32(v, lo + 1, hi)

----------------------------------------------------------------------------
(* Handles and calls.                                                      *)

One(e) ==
    SetToBag({e})

Call(op, args) ==
    [op |-> op, args |-> args]

Running ==
    fatal = "none"

Idle ==
    Running /\ pc = "idle"

(* The logical callers that may interleave (main and an interrupt          *)
(* handler), and a caller that is inside no guarded constructor.           *)
Callers == {"main", "isr"}

NoRacer ==
    [pc |-> "idle", target |-> <<>>, was_init |-> FALSE]

----------------------------------------------------------------------------
(* mcg.rs                                                                  *)

Low == 0
High == 1
VeryHigh == 2

LockedLoop == 0
Internal == 1
External == 2

OscRanges == {Low, High, VeryHigh}

McgLive ==
    BagCardinality(mcgs) + (IF pc = "idle" THEN 0 ELSE 1)

(* A faulty variant: the flag is stored, not swapped, so a live instance goes unseen *)
McgNewStore ==
    /\ Idle
    /\ MCG_INIT' = TRUE
    /\ fatal' = "none"
    /\ mcgs' = mcgs (+) One("Mcg")
    /\ call' = Call("Mcg::new", <<>>)
    /\ UNCHANGED <<c1, c2, c5, c6, s, pc, simVars, portVars, seen, racers>>

McgNew ==
    /\ Idle
    /\ MCG_INIT' = TRUE
    /\ IF MCG_INIT
         THEN fatal' = "AlreadyInitialized" /\ mcgs' = mcgs
         ELSE fatal' = "none" /\ mcgs' = mcgs (+) One("Mcg")
    /\ call' = Call("Mcg::new", <<>>)
    /\ UNCHANGED <<c1, c2, c5, c6, s, pc, simVars, portVars, seen, racers>>

(* A faulty variant: the drop leaves the guard flag set                     *)
McgDropKeepsFlag(form) ==
    /\ Idle
    /\ BagIn(form, mcgs)
    /\ mcgs' = mcgs (-) One(form)
    /\ call' = Call("drop", <<form>>)
    /\ UNCHANGED <<MCG_INIT, c1, c2, c5, c6, s, pc, fatal, simVars, portVars, seen, racers>>

McgDrop(form) ==
    /\ Idle
    /\ BagIn(form, mcgs)
    /\ mcgs' = mcgs (-) One(form)
    /\ MCG_INIT' = FALSE
    /\ call' = Call("drop", <<form>>)
    /\ UNCHANGED <<c1, c2, c5, c6, s, pc, fatal, simVars, portVars, seen, racers>>

(* mem::transmute of the two selector bits into OscSource: 0, 1 and 2 are  *)
(* the enum's values; 3 is no value of the enum, the transmute is          *)
(* undefined behaviour and the match that follows may take it for any      *)
(* value: 3 here stands for "no arm's pattern".                            *)
TransmuteOscSource(bits) ==
    IF bits \in {LockedLoop, Internal, External} THEN {bits} ELSE 0 .. 3

ClockMatch(fll_internal, pll_enabled, source) ==
    IF fll_internal /\ ~pll_enabled /\ source = LockedLoop THEN "Fei"
    ELSE IF ~fll_internal /\ ~pll_enabled /\ source = External THEN "Fbe"
    ELSE IF pll_enabled /\ source = External THEN "Pbe"
    ELSE "panic"

ClockOutcomes(r1, r6) ==
    { ClockMatch(GetBit(r1, 2), GetBit(r6, 6), source) :
        source \in TransmuteOscSource(GetBits(r1, 6, 8)) }

McgClock ==
    /\ Idle
    /\ BagIn("Mcg", mcgs)
    /\ \E out \in ClockOutcomes(c1, c6) :
         IF out = "panic"
           THEN fatal' = "Unrepresentable" /\ mcgs' = mcgs /\ seen' = seen
           ELSE /\ fatal' = "none"
                /\ mcgs' = (mcgs (-) One("Mcg")) (+) One(out)
                /\ seen' = seen \cup {out}
    /\ call' = Call("clock", <<>>)
    /\ UNCHANGED <<MCG_INIT, c1, c2, c5, c6, s, pc, simVars, portVars, racers>>

EnableXtal(range) ==
    /\ Idle
    /\ BagIn("Fei", mcgs)
    /\ mcgs' = mcgs (-) One("Fei")
    /\ c2' = SetBit(SetBits(c2, 4, 6, range), 2, TRUE)
    /\ pc' = "enable_xtal.osc"
    /\ call' = Call("enable_xtal", <<range>>)
    /\ UNCHANGED <<MCG_INIT, c1, c5, c6, s, fatal, simVars, portVars, seen, racers>>

(* A faulty variant: the wait gives up after a while and reports a fault   *)
(* when the oscillator has not started                                     *)
EnableXtalReturnTimeout ==
    /\ Running
    /\ pc = "enable_xtal.osc"
    /\ pc' = "idle"
    /\ mcgs' = mcgs (+) One("Fei")
    /\ fatal' = IF GetBit(s, 1) THEN "none" ELSE "Timeout"
    /\ UNCHANGED <<MCG_INIT, c1, c2, c5, c6, s, call, simVars, portVars, seen, racers>>

EnableXtalReturn ==
    /\ Running
    /\ pc = "enable_xtal.osc"
    /\ GetBit(s, 1)
    /\ pc' = "idle"
    /\ mcgs' = mcgs (+) One("Fei")
    /\ UNCHANGED <<MCG_INIT, c1, c2, c5, c6, s, call, fatal, simVars, portVars, seen, racers>>

FrdivLow(divide) ==
    CASE divide = 1 -> 0
      [] divide = 2 -> 1
      [] divide = 4 -> 2
      [] divide = 8 -> 3
      [] divide = 16 -> 4
      [] divide = 32 -> 5
      [] divide = 64 -> 6
      [] divide = 128 -> 7
      [] OTHER -> -1

(* A faulty variant: the two irregular entries of the table swapped                  *)
FrdivHighSwapped(divide) ==
    CASE divide = 32 -> 0
      [] divide = 64 -> 1
      [] divide = 128 -> 2
      [] divide = 256 -> 3
      [] divide = 512 -> 4
      [] divide = 1024 -> 5
      [] divide = 1536 -> 6
      [] divide = 1280 -> 7
      [] OTHER -> -1

FrdivHigh(divide) ==
    CASE divide = 32 -> 0
      [] divide = 64 -> 1
      [] divide = 128 -> 2
      [] divide = 256 -> 3
      [] divide = 512 -> 4
      [] divide = 1024 -> 5
      [] divide = 1280 -> 6
      [] divide = 1536 -> 7
      [] OTHER -> -1

Frdiv(osc, divide) ==
    IF osc = Low THEN FrdivLow(divide) ELSE FrdivHigh(divide)

UseExternal(divide) ==
    /\ Idle
    /\ BagIn("Fei", mcgs)
    /\ call' = Call("use_external", <<divide>>)
    /\ LET frdiv == Frdiv(GetBits(c2, 4, 6), divide)
       IN  IF frdiv = -1
             THEN /\ fatal' = "InvalidParameter"
                  /\ UNCHANGED <<MCG_INIT, mcgs, c1, c2, c5, c6, s, pc, simVars, portVars, seen, racers>>
             ELSE /\ c1' = SetBit(SetBits(SetBits(c1, 6, 8, External), 3, 6, frdiv), 2, FALSE)
                  /\ mcgs' = mcgs (-) One("Fei")
                  /\ pc' = "use_external.irefst"
                  /\ seen' = seen \cup {"clks := external"}
                  /\ UNCHANGED <<MCG_INIT, c2, c5, c6, s, fatal, simVars, portVars, racers>>

UseExternalRefSwitched ==
    /\ Running
    /\ pc = "use_external.irefst"
    /\ ~GetBit(s, 4)
    /\ pc' = "use_external.clkst"
    /\ UNCHANGED <<MCG_INIT, mcgs, c1, c2, c5, c6, s, call, fatal, simVars, portVars, seen, racers>>

(* A faulty variant: the second wait gives up without the status field     *)
(* reading external                                                        *)
UseExternalReturnNoWait ==
    /\ Running
    /\ pc = "use_external.clkst"
    /\ pc' = "idle"
    /\ mcgs' = mcgs (+) One("Fbe")
    /\ seen' = IF GetBits(s, 2, 4) = External
                THEN seen \cup {"clkst = external"} ELSE seen
    /\ UNCHANGED <<MCG_INIT, c1, c2, c5, c6, s, call, fatal, simVars, portVars, racers>>

UseExternalReturn ==
    /\ Running
    /\ pc = "use_external.clkst"
    /\ GetBits(s, 2, 4) = External
    /\ pc' = "idle"
    /\ mcgs' = mcgs (+) One("Fbe")
    /\ seen' = seen \cup {"clkst = external"}
    /\ UNCHANGED <<MCG_INIT, c1, c2, c5, c6, s, call, fatal, simVars, portVars, racers>>

(* A faulty variant: the upper end of the numerator's range off by one               *)
PllParamsOffByOne(numerator, denominator) ==
    /\ ~(numerator < 24 \/ numerator > 56)
    /\ ~(denominator < 1 \/ denominator > 25)

PllParamsValid(numerator, denominator) ==
    /\ ~(numerator < 24 \/ numerator > 55)
    /\ ~(denominator < 1 \/ denominator > 25)

(* A faulty variant: the reference divider is written before the factors   *)
(* are checked                                                             *)
EnablePllWriteFirst(numerator, denominator) ==
    /\ Idle
    /\ BagIn("Fbe", mcgs)
    /\ call' = Call("enable_pll", <<numerator, denominator>>)
    /\ c5' = SetBits(c5, 0, 5, (denominator + 255) % 256)
    /\ IF ~PllParamsValid(numerator, denominator)
         THEN /\ fatal' = "InvalidParameter"
              /\ UNCHANGED <<MCG_INIT, mcgs, c1, c2, c6, s, pc, simVars, portVars, seen, racers>>
         ELSE /\ c6' = SetBit(SetBits(c6, 0, 5, numerator - 24), 6, TRUE)
              /\ mcgs' = mcgs (-) One("Fbe")
              /\ pc' = "enable_pll.pllst"
              /\ UNCHANGED <<MCG_INIT, c1, c2, s, fatal, simVars, portVars, seen, racers>>

EnablePll(numerator, denominator) ==
    /\ Idle
    /\ BagIn("Fbe", mcgs)
    /\ call' = Call("enable_pll", <<numerator, denominator>>)
    /\ IF ~PllParamsValid(numerator, denominator)
         THEN /\ fatal' = "InvalidParameter"
              /\ UNCHANGED <<MCG_INIT, mcgs, c1, c2, c5, c6, s, pc, simVars, portVars, seen, racers>>
         ELSE /\ c5' = SetBits(c5, 0, 5, denominator - 1)
              /\ c6' = SetBit(SetBits(c6, 0, 5, numerator - 24), 6, TRUE)
              /\ mcgs' = mcgs (-) One("Fbe")
              /\ pc' = "enable_pll.pllst"
              /\ UNCHANGED <<MCG_INIT, c1, c2, s, fatal, simVars, portVars, seen, racers>>

EnablePllSelected ==
    /\ Running
    /\ pc = "enable_pll.pllst"
    /\ GetBit(s, 5)
    /\ pc' = "enable_pll.lock"
    /\ seen' = seen \cup {"pllst"}
    /\ UNCHANGED <<MCG_INIT, mcgs, c1, c2, c5, c6, s, call, fatal, simVars, portVars, racers>>

(* A faulty variant: the second wait gives up without the lock bit set     *)
EnablePllReturnUnlocked ==
    /\ Running
    /\ pc = "enable_pll.lock"
    /\ pc' = "idle"
    /\ mcgs' = mcgs (+) One("Pbe")
    /\ seen' = IF GetBit(s, 6) THEN seen \cup {"lock0"} ELSE seen
    /\ UNCHANGED <<MCG_INIT, c1, c2, c5, c6, s, call, fatal, simVars, portVars, racers>>

EnablePllReturn ==
    /\ Running
    /\ pc = "enable_pll.lock"
    /\ GetBit(s, 6)
    /\ pc' = "idle"
    /\ mcgs' = mcgs (+) One("Pbe")
    /\ seen' = seen \cup {"lock0"}
    /\ UNCHANGED <<MCG_INIT, c1, c2, c5, c6, s, call, fatal, simVars, portVars, racers>>

UsePll ==
    /\ Idle
    /\ BagIn("Pbe", mcgs)
    /\ c1' = SetBits(c1, 6, 8, LockedLoop)
    /\ mcgs' = mcgs (-) One("Pbe")
    /\ pc' = "use_pll.clkst"
    /\ call' = Call("use_pll", <<>>)
    /\ UNCHANGED <<MCG_INIT, c2, c5, c6, s, fatal, simVars, portVars, seen, racers>>

(* A faulty variant: the wait compares the status field with the selector's own      *)
(* code for the locked loop                                                *)
UsePllReturnOnSelectorCode ==
    /\ Running
    /\ pc = "use_pll.clkst"
    /\ GetBits(s, 2, 4) = LockedLoop
    /\ pc' = "idle"
    /\ MCG_INIT' = FALSE
    /\ UNCHANGED <<mcgs, c1, c2, c5, c6, s, call, fatal, simVars, portVars, seen, racers>>

(* use_pll returns nothing: the Pbe it consumed is dropped on return.      *)
UsePllReturn ==
    /\ Running
    /\ pc = "use_pll.clkst"
    /\ GetBits(s, 2, 4) = 3
    /\ pc' = "idle"
    /\ MCG_INIT' = FALSE
    /\ UNCHANGED <<mcgs, c1, c2, c5, c6, s, call, fatal, simVars, portVars, seen, racers>>

----------------------------------------------------------------------------
(* The clock generator itself, as the driver's waits describe it: the      *)
(* status register follows the control registers, each field in its own    *)
(* time.                                                                   *)

HwOscInit ==
    /\ GetBit(c2, 2) /\ ~GetBit(s, 1)
    /\ s' = SetBit(s, 1, TRUE)
    /\ UNCHANGED <<MCG_INIT, mcgs, c1, c2, c5, c6, pc, call, fatal, simVars, portVars, seen, racers>>

HwRefSwitch ==
    /\ GetBit(s, 4) # GetBit(c1, 2)
    /\ s' = SetBit(s, 4, GetBit(c1, 2))
    /\ UNCHANGED <<MCG_INIT, mcgs, c1, c2, c5, c6, pc, call, fatal, simVars, portVars, seen, racers>>

HwClockSource ==
    CASE GetBits(c1, 6, 8) = LockedLoop -> IF GetBit(s, 5) /\ GetBit(s, 6) THEN 3 ELSE 0
      [] GetBits(c1, 6, 8) = Internal -> 1
      [] GetBits(c1, 6, 8) = External -> 2
      [] OTHER -> GetBits(s, 2, 4)

HwClockSwitch ==
    /\ GetBits(s, 2, 4) # HwClockSource
    /\ s' = SetBits(s, 2, 4, HwClockSource)
    /\ UNCHANGED <<MCG_INIT, mcgs, c1, c2, c5, c6, pc, call, fatal, simVars, portVars, seen, racers>>

HwPllSelect ==
    /\ GetBit(s, 5) # GetBit(c6, 6)
    /\ s' = SetBit(s, 5, GetBit(c6, 6))
    /\ UNCHANGED <<MCG_INIT, mcgs, c1, c2, c5, c6, pc, call, fatal, simVars, portVars, seen, racers>>

HwPllLock ==
    /\ GetBit(s, 5) /\ ~GetBit(s, 6)
    /\ s' = SetBit(s, 6, TRUE)
    /\ UNCHANGED <<MCG_INIT, mcgs, c1, c2, c5, c6, pc, call, fatal, simVars, portVars, seen, racers>>

Hardware ==
    \/ HwOscInit
    \/ HwRefSwitch
    \/ HwClockSwitch
    \/ HwPllSelect
    \/ HwPllLock

McgWaits ==
    \/ EnableXtalReturn
    \/ UseExternalRefSwitched
    \/ UseExternalReturn
    \/ EnablePllSelected
    \/ EnablePllReturn
    \/ UsePllReturn

McgForms == {"Mcg", "Fei", "Fbe", "Pbe"}

McgNext(ranges, divides, numerators, denominators) ==
    \/ McgNew
    \/ McgClock
    \/ \E form \in McgForms : McgDrop(form)
    \/ \E range \in ranges : EnableXtal(range)
    \/ Idle /\ BagIn("Fei", mcgs) /\ \E divide \in divides : UseExternal(divide)
    \/ Idle /\ BagIn("Fbe", mcgs) /\ \E numerator \in numerators, denominator \in denominators :
         EnablePll(numerator, denominator)
    \/ UsePll
    \/ McgWaits
    \/ Hardware

----------------------------------------------------------------------------
(* sim.rs                                                                  *)

SimNew ==
    /\ Idle
    /\ SIM_INIT' = TRUE
    /\ IF SIM_INIT
         THEN fatal' = "AlreadyInitialized" /\ sims' = sims
         ELSE fatal' = "none" /\ sims' = sims + 1
    /\ call' = Call("Sim::new", <<>>)
    /\ wr' = {}
    /\ UNCHANGED <<clkdiv1, gate, ports, uarts, pins, pcr, mcgVars, seen, racers>>

SimDrop ==
    /\ Idle
    /\ sims > 0
    /\ sims' = sims - 1
    /\ SIM_INIT' = FALSE
    /\ call' = Call("drop", <<"Sim">>)
    /\ wr' = {}
    /\ UNCHANGED <<clkdiv1, gate, ports, uarts, pins, pcr, fatal, mcgVars, seen, racers>>

(* A faulty variant: the fields are set in the register's present content  *)
SetDividersUpdate(core, bus, flash) ==
    /\ Idle
    /\ sims > 0
    /\ clkdiv1' = SetBits32(SetBits32(SetBits32(clkdiv1, 28, 32, core - 1),
                                      24, 28, bus - 1),
                            16, 20, flash - 1)
    /\ call' = Call("set_dividers", <<core, bus, flash>>)
    /\ wr' = {}
    /\ UNCHANGED <<SIM_INIT, sims, gate, ports, uarts, pins, pcr, fatal, mcgVars, seen, racers>>

(* Sim::set_dividers: the three fields are set in a fresh zero word, and   *)
(* the word is written over the register.                                  *)
SetDividers(core, bus, flash) ==
    /\ Idle
    /\ sims > 0
    /\ clkdiv1' = SetBits32(SetBits32(SetBits32(Zero32, 28, 32, core - 1),
                                      24, 28, bus - 1),
                            16, 20, flash - 1)
    /\ call' = Call("set_dividers", <<core, bus, flash>>)
    /\ wr' = {}
    /\ UNCHANGED <<SIM_INIT, sims, gate, ports, uarts, pins, pcr, fatal, mcgVars, seen, racers>>

(* 0x42900500: the bit-band alias of the first clock-gate register         *)
ClockGateBase == 1116734720

ClockGateNew(reg, bit) ==
    ClockGateBase + 128 * (reg - 1) + 4 * bit

PortGate(name) ==
    CASE name = "B" -> ClockGateNew(5, 10)
      [] name = "C" -> ClockGateNew(5, 11)

UartGate ==
    ClockGateNew(4, 10)

GateAddrs ==
    {PortGate("B"), PortGate("C"), UartGate}

(* A faulty variant: the release leaves the gate word as it is                       *)
ClockGateDropNoWrite(g) ==
    gate

(* Drop for ClockGate                                                      *)
ClockGateDrop(g) ==
    [gate EXCEPT ![g] = 0]

----------------------------------------------------------------------------
(* port.rs                                                                 *)

PortNames == {"B", "C"}

PORTC == 1074049024     \* 0x4004B000
PORTB == 1074044928     \* 0x4004A000
GPIOC == 1140723712     \* 0x43FE1000
GPIOB == 1140721664     \* 0x43FE0800

NumPins == 32

PinNumbers == 0 .. NumPins - 1

(* Bounds: the places a Port object can live at, and the Pin handles the   *)
(* callers hold at a time (over a few pin numbers, over all of them).      *)
MaxPorts == 2
MaxPins == 2
MaxHeld == 1

(* Where a Port object can live.  Port::new returns the Port by value, so  *)
(* the object is in the caller's memory (RAM from 0x20000000 here),        *)
(* never on top of the register block its reg field refers to.             *)
PortObjAddrs ==
    { 2^29 + 40 * i : i \in 0 .. MaxPorts - 1 }

NoPort ==
    [reg |-> 0, locks |-> [p \in PinNumbers |-> FALSE], gate |-> 0]

PortLive(at) ==
    ports[at].reg # 0

PortNew(name, g) ==
    [reg |-> (CASE name = "C" -> PORTC [] name = "B" -> PORTB),
     locks |-> [p \in PinNumbers |-> FALSE],
     gate |-> g]

(* Port::name reads the address of the Port object, not of its registers.  *)
PortNameOf(at) ==
    CASE at = PORTC -> "C"
      [] at = PORTB -> "B"
      [] OTHER -> "unreachable"

(* The name of the register block a Port was made for.                     *)
RegsName(at) ==
    CASE ports[at].reg = PORTC -> "C"
      [] ports[at].reg = PORTB -> "B"

SetPinMode(at, p, mode) ==
    [pcr EXCEPT ![ports[at].reg][p] = SetBits(@, 8, 11, mode)]

(* A faulty variant: the gate word is written without being read first     *)
SimPortNoCheck(name) ==
    /\ Idle
    /\ sims > 0
    /\ call' = Call("Sim::port", <<name>>)
    /\ wr' = {}
    /\ \E at \in PortObjAddrs :
         /\ ~PortLive(at)
         /\ ports' = [ports EXCEPT ![at] = PortNew(name, PortGate(name))]
    /\ gate' = [gate EXCEPT ![PortGate(name)] = 1]
    /\ fatal' = "none"
    /\ UNCHANGED <<simVars, uarts, pins, pcr, mcgVars, seen, racers>>

SimPort(name) ==
    /\ Idle
    /\ sims > 0
    /\ call' = Call("Sim::port", <<name>>)
    /\ wr' = {}
    /\ LET g == PortGate(name)
       IN  IF gate[g] # 0
             THEN /\ fatal' = "AlreadyInitialized"
                  /\ UNCHANGED <<gate, ports>>
             ELSE /\ \E at \in PortObjAddrs :
                       /\ ~PortLive(at)
                       /\ ports' = [ports EXCEPT ![at] = PortNew(name, g)]
                  /\ gate' = [gate EXCEPT ![g] = 1]
                  /\ fatal' = "none"
    /\ UNCHANGED <<simVars, uarts, pins, pcr, mcgVars, seen, racers>>

PortDrop(at) ==
    /\ Idle
    /\ PortLive(at)
    /\ \A h \in BagToSet(pins) : h.port # at
    /\ gate' = ClockGateDrop(ports[at].gate)
    /\ ports' = [ports EXCEPT ![at] = NoPort]
    /\ call' = Call("drop", <<"Port", at>>)
    /\ wr' = {}
    /\ UNCHANGED <<simVars, uarts, pins, pcr, fatal, mcgVars, seen, racers>>

(* Sim::uart with no Rx and no Tx; the Uart it returns keeps the gate.     *)
SimUart(uart) ==
    /\ Idle
    /\ sims > 0
    /\ call' = Call("Sim::uart", <<uart>>)
    /\ wr' = {}
    /\ IF uart # 0
         THEN fatal' = "InvalidParameter" /\ UNCHANGED <<gate, uarts>>
         ELSE IF gate[UartGate] # 0
           THEN fatal' = "AlreadyInitialized" /\ UNCHANGED <<gate, uarts>>
           ELSE /\ gate' = [gate EXCEPT ![UartGate] = 1]
                /\ uarts' = uarts (+) One(UartGate)
                /\ fatal' = "none"
    /\ UNCHANGED <<simVars, ports, pins, pcr, mcgVars, seen, racers>>

UartDrop(g) ==
    /\ Idle
    /\ BagIn(g, uarts)
    /\ uarts' = uarts (-) One(g)
    /\ gate' = ClockGateDrop(g)
    /\ call' = Call("drop", <<"Uart", g>>)
    /\ wr' = {}
    /\ UNCHANGED <<simVars, ports, pins, pcr, fatal, mcgVars, seen, racers>>

PinHandle(at, p) ==
    [port |-> at, pin |-> p, as |-> "Pin", gpio |-> 0]

(* A faulty variant: the flag is loaded, not swapped, so it is never set             *)
PortPinLoad(at, p) ==
    /\ Idle
    /\ PortLive(at)
    /\ call' = Call("pin", <<at, p>>)
    /\ wr' = {}
    /\ IF ~(p < 32)
         THEN fatal' = "Assert" /\ UNCHANGED <<ports, pins>>
         ELSE /\ ports' = ports
              /\ IF ports[at].locks[p]
                   THEN fatal' = "AlreadyInitialized" /\ pins' = pins
                   ELSE /\ fatal' = "none"
                        /\ pins' = pins (+) One(PinHandle(at, p))
    /\ UNCHANGED <<simVars, gate, uarts, pcr, mcgVars, seen, racers>>

PortPin(at, p) ==
    /\ Idle
    /\ PortLive(at)
    /\ call' = Call("pin", <<at, p>>)
    /\ wr' = {}
    /\ IF ~(p < 32)
         THEN fatal' = "Assert" /\ UNCHANGED <<ports, pins>>
         ELSE /\ ports' = [ports EXCEPT ![at].locks[p] = TRUE]
              /\ IF ports[at].locks[p]
                   THEN fatal' = "AlreadyInitialized" /\ pins' = pins
                   ELSE /\ fatal' = "none"
                        /\ pins' = pins (+) One(PinHandle(at, p))
    /\ UNCHANGED <<simVars, gate, uarts, pcr, mcgVars, seen, racers>>

(* A faulty variant: the release leaves the flag set                                 *)
DropPinKeepsFlag(at, p) ==
    ports

DropPin(at, p) ==
    [ports EXCEPT ![at].locks[p] = FALSE]

(* Drop for Pin: of a bare Pin, or of the capability that embeds it.       *)
PinDrop(h) ==
    /\ Idle
    /\ BagIn(h, pins)
    /\ pins' = pins (-) One(h)
    /\ ports' = DropPin(h.port, h.pin)
    /\ call' = Call("drop", <<h>>)
    /\ wr' = {}
    /\ UNCHANGED <<simVars, gate, uarts, pcr, fatal, mcgVars, seen, racers>>

GpioBitband(name) ==
    CASE name = "C" -> GPIOC
      [] name = "B" -> GPIOB

GpioNewHandle(name, h) ==
    [h EXCEPT !.as = "Gpio", !.gpio = GpioBitband(name)]

(* Gpio::new called by the user with the name of the pin's port.           *)
GpioNew(h) ==
    /\ Idle
    /\ BagIn(h, pins)
    /\ h.as = "Pin"
    /\ pins' = (pins (-) One(h)) (+) One(GpioNewHandle(RegsName(h.port), h))
    /\ call' = Call("Gpio::new", <<h>>)
    /\ wr' = {}
    /\ UNCHANGED <<simVars, gate, ports, uarts, pcr, fatal, mcgVars, seen, racers>>

MakeGpio(h) ==
    /\ Idle
    /\ BagIn(h, pins)
    /\ h.as = "Pin"
    /\ call' = Call("make_gpio", <<h>>)
    /\ wr' = {}
    /\ pcr' = SetPinMode(h.port, h.pin, 1)
    /\ LET name == PortNameOf(h.port)
       IN  IF name = "unreachable"
             THEN fatal' = "Unreachable" /\ pins' = pins
             ELSE /\ fatal' = "none"
                  /\ pins' = (pins (-) One(h)) (+) One(GpioNewHandle(name, h))
    /\ UNCHANGED <<simVars, gate, ports, uarts, mcgVars, seen, racers>>

RxPin(name, p) ==
    name = "B" /\ p = 16

TxPin(name, p) ==
    name = "B" /\ p = 17

MakeRx(h) ==
    /\ Idle
    /\ BagIn(h, pins)
    /\ h.as = "Pin"
    /\ call' = Call("make_rx", <<h>>)
    /\ wr' = {}
    /\ LET name == PortNameOf(h.port)
       IN  IF name = "unreachable"
             THEN fatal' = "Unreachable" /\ UNCHANGED <<pins, pcr>>
             ELSE IF RxPin(name, h.pin)
               THEN /\ pcr' = SetPinMode(h.port, h.pin, 3)
                    /\ pins' = (pins (-) One(h)) (+) One([h EXCEPT !.as = "Rx"])
                    /\ fatal' = "none"
               ELSE fatal' = "InvalidPin" /\ UNCHANGED <<pins, pcr>>
    /\ UNCHANGED <<simVars, gate, ports, uarts, mcgVars, seen, racers>>

MakeTx(h) ==
    /\ Idle
    /\ BagIn(h, pins)
    /\ h.as = "Pin"
    /\ call' = Call("make_tx", <<h>>)
    /\ wr' = {}
    /\ LET name == PortNameOf(h.port)
       IN  IF name = "unreachable"
             THEN fatal' = "Unreachable" /\ UNCHANGED <<pins, pcr>>
             ELSE IF TxPin(name, h.pin)
               THEN /\ pcr' = SetPinMode(h.port, h.pin, 3)
                    /\ pins' = (pins (-) One(h)) (+) One([h EXCEPT !.as = "Tx"])
                    /\ fatal' = "none"
               ELSE fatal' = "InvalidPin" /\ UNCHANGED <<pins, pcr>>
    /\ UNCHANGED <<simVars, gate, ports, uarts, mcgVars, seen, racers>>

(* A faulty variant: the pin number taken as a byte offset, not a word index         *)
BitbandWordByteOffset(array, p) ==
    4 * NumPins * (CASE array = "pdor" -> 0
                     [] array = "psor" -> 1
                     [] array = "pcor" -> 2
                     [] array = "ptor" -> 3
                     [] array = "pdir" -> 4
                     [] array = "pddr" -> 5)
      + p

(* GpioBitband: six arrays of 32 words, in this order.                     *)
BitbandWord(array, p) ==
    4 * (NumPins * (CASE array = "pdor" -> 0
                      [] array = "psor" -> 1
                      [] array = "pcor" -> 2
                      [] array = "ptor" -> 3
                      [] array = "pdir" -> 4
                      [] array = "pddr" -> 5)
         + p)

GpioWrite(h, array) ==
    /\ Idle
    /\ BagIn(h, pins)
    /\ h.as = "Gpio"
    /\ wr' = {<<h.gpio + BitbandWord(array, h.pin), 1>>}
    /\ UNCHANGED <<simVars, gate, ports, uarts, pins, pcr, fatal, mcgVars, seen, racers>>

GpioOutput(h) ==
    GpioWrite(h, "pddr") /\ call' = Call("output", <<h>>)

GpioHigh(h) ==
    GpioWrite(h, "psor") /\ call' = Call("high", <<h>>)

GpioLow(h) ==
    GpioWrite(h, "pcor") /\ call' = Call("low", <<h>>)

Handles ==
    BagToSet(pins)

(* A caller asks for a pin that is free only while it holds fewer than     *)
(* max handles; it may ask for a pin in use, or past the end, at any time. *)
MayAsk(at, p, max) ==
    /\ PortLive(at)
    /\ (p \in PinNumbers /\ ~ports[at].locks[p]) => BagCardinality(pins) < max

PortNext(pinset) ==
    \/ SimNew
    \/ SimDrop
    \/ \E name \in PortNames : SimPort(name)
    \/ \E at \in PortObjAddrs : PortDrop(at)
    \/ \E uart \in {0, 1} : SimUart(uart)
    \/ \E g \in GateAddrs : UartDrop(g)
    \/ \E at \in PortObjAddrs, p \in pinset : MayAsk(at, p, MaxPins) /\ PortPin(at, p)
    \/ \E h \in Handles : PinDrop(h)
    \/ \E h \in Handles : GpioNew(h)
    \/ \E h \in Handles : MakeGpio(h)
    \/ \E h \in Handles : MakeRx(h)
    \/ \E h \in Handles : MakeTx(h)
    \/ \E h \in Handles : GpioOutput(h)
    \/ \E h \in Handles : GpioHigh(h)
    \/ \E h \in Handles : GpioLow(h)

----------------------------------------------------------------------------
(* Reentrant callers.  A guarded constructor run by a caller that another  *)
(* caller may interrupt: the swap of the guard flag is one step, the test  *)
(* of the value it returned (the local was_init) is the next.              *)

(* A faulty variant: the flag is read and left as it is                    *)
AtomicLoad(flag) ==
    [was_init |-> flag, flag |-> flag]

(* AtomicBool::swap(true, _): one indivisible read and write               *)
AtomicSwap(flag) ==
    [was_init |-> flag, flag |-> TRUE]

Entered(t, target, was) ==
    [racers EXCEPT ![t] = [pc |-> "check", target |-> target, was_init |-> was]]

Returned(t) ==
    [racers EXCEPT ![t] = NoRacer]

SimNewSwap(t) ==
    /\ Idle
    /\ racers[t].pc = "idle"
    /\ LET r == AtomicSwap(SIM_INIT)
       IN  /\ SIM_INIT' = r.flag
           /\ racers' = Entered(t, <<"Sim">>, r.was_init)
    /\ call' = Call("Sim::new", <<t>>)
    /\ UNCHANGED <<sims, clkdiv1, mcgVars, portVars, fatal, seen>>

SimNewReturn(t) ==
    /\ Running
    /\ racers[t].pc = "check"
    /\ racers[t].target = <<"Sim">>
    /\ IF racers[t].was_init
         THEN fatal' = "AlreadyInitialized" /\ UNCHANGED <<sims, racers>>
         ELSE fatal' = "none" /\ sims' = sims + 1 /\ racers' = Returned(t)
    /\ UNCHANGED <<SIM_INIT, clkdiv1, mcgVars, portVars, call, seen>>

McgNewSwap(t) ==
    /\ Idle
    /\ racers[t].pc = "idle"
    /\ LET r == AtomicSwap(MCG_INIT)
       IN  /\ MCG_INIT' = r.flag
           /\ racers' = Entered(t, <<"Mcg">>, r.was_init)
    /\ call' = Call("Mcg::new", <<t>>)
    /\ UNCHANGED <<mcgs, c1, c2, c5, c6, s, pc, simVars, portVars, fatal, seen>>

McgNewReturn(t) ==
    /\ Running
    /\ racers[t].pc = "check"
    /\ racers[t].target = <<"Mcg">>
    /\ IF racers[t].was_init
         THEN fatal' = "AlreadyInitialized" /\ UNCHANGED <<mcgs, racers>>
         ELSE /\ fatal' = "none"
              /\ mcgs' = mcgs (+) One("Mcg")
              /\ racers' = Returned(t)
    /\ UNCHANGED <<MCG_INIT, c1, c2, c5, c6, s, pc, simVars, portVars, call, seen>>

PortPinSwap(t, at, p) ==
    /\ Idle
    /\ racers[t].pc = "idle"
    /\ PortLive(at)
    /\ p < 32
    /\ LET r == AtomicSwap(ports[at].locks[p])
       IN  /\ ports' = [ports EXCEPT ![at].locks[p] = r.flag]
           /\ racers' = Entered(t, <<"pin", at, p>>, r.was_init)
    /\ call' = Call("pin", <<at, p, t>>)
    /\ UNCHANGED <<gate, uarts, pins, pcr, wr, mcgVars, simVars, fatal, seen>>

PortPinReturn(t) ==
    /\ Running
    /\ racers[t].pc = "check"
    /\ racers[t].target[1] = "pin"
    /\ IF racers[t].was_init
         THEN fatal' = "AlreadyInitialized" /\ UNCHANGED <<pins, racers>>
         ELSE /\ fatal' = "none"
              /\ pins' = pins (+) One(PinHandle(racers[t].target[2], racers[t].target[3]))
              /\ racers' = Returned(t)
    /\ UNCHANGED <<gate, ports, uarts, pcr, wr, mcgVars, simVars, call, seen>>

(* The pins the interleaved callers ask for: the two ends of a port.       *)
RacePins == {0, NumPins - 1}

RaceNext ==
    \/ \E t \in Callers : SimNewSwap(t)
    \/ \E t \in Callers : SimNewReturn(t)
    \/ \E t \in Callers : McgNewSwap(t)
    \/ \E t \in Callers : McgNewReturn(t)
    \/ \E t \in Callers, at \in PortObjAddrs, p \in RacePins : PortPinSwap(t, at, p)
    \/ \E t \in Callers : PortPinReturn(t)
    \/ SimDrop
    \/ McgDrop("Mcg")
    \/ \E name \in PortNames : SimPort(name)
    \/ \E h \in Handles : PinDrop(h)

----------------------------------------------------------------------------
(* Initial states.                                                         *)

InitRest ==
    /\ MCG_INIT = FALSE
    /\ mcgs = EmptyBag
    /\ pc = "idle"
    /\ SIM_INIT = FALSE
    /\ sims = 0
    /\ gate = [g \in GateAddrs |-> 0]
    /\ ports = [at \in PortObjAddrs |-> NoPort]
    /\ uarts = EmptyBag
    /\ pins = EmptyBag
    /\ pcr = [r \in {PORTB, PORTC} |-> [p \in PinNumbers |-> 0]]
    /\ wr = {}
    /\ call = Call("none", <<>>)
    /\ fatal = "none"
    /\ seen = {}
    /\ racers = [t \in Callers |-> NoRacer]

(* The divider register before set_dividers has been called.               *)
InitClkdiv ==
    clkdiv1 = Zero32

(* The clock generator out of reset: FLL engaged on the internal reference *)
InitFei ==
    /\ c1 = SetBit(0, 2, TRUE)
    /\ c2 = 0
    /\ c5 = 0
    /\ c6 = 0
    /\ s = SetBit(0, 4, TRUE)

(* A clock generator somebody else has configured: any control bytes.      *)
InitForeign ==
    /\ c1 \in Byte
    /\ c6 \in Byte
    /\ c2 = 0
    /\ c5 = 0
    /\ s = 0

(* The arguments the callers of the clock specifications pass: every       *)
(* divide ratio up to one past the largest of the tables, and PLL factors  *)
(* on both sides of each end of their ranges.                              *)
MaxDivide == 1537

Divides == 0 .. MaxDivide
TestNumerators == {0, 23, 24, 27, 55, 56, 255}
TestDenominators == {0, 1, 6, 25, 26, 255}

(* The system before main has called anything.                             *)
Init ==
    InitRest /\ InitClkdiv /\ InitFei

SpecMcg ==
    Init /\ [][McgNext(OscRanges, Divides, TestNumerators, TestDenominators)]_vars

(* enable_pll over every pair of u8 arguments, behind main's enable_xtal   *)
(* and use_external.                                                       *)
SpecPll ==
    Init /\ [][McgNext({VeryHigh}, {512}, Byte, Byte)]_vars

InitClock ==
    InitRest /\ InitClkdiv /\ InitForeign

NextClock ==
    \/ McgNew
    \/ McgClock
    \/ \E form \in McgForms : McgDrop(form)

SpecClock ==
    InitClock /\ [][NextClock]_vars

(* The whole system with main's clock parameters: both singletons, the     *)
(* ports they gate and the clock chain.                                    *)
Next ==
    \/ SimNew
    \/ SimDrop
    \/ \E name \in PortNames : SimPort(name)
    \/ \E at \in PortObjAddrs : PortDrop(at)
    \/ McgNext({VeryHigh}, {512}, {27}, {6})

Spec ==
    Init /\ [][Next]_vars

(* The pin numbers the callers of the port specification ask for: the    *)
(* ends of the range, the two serial pins and one number past the end.     *)
TestPins == {0, 16, 17, NumPins - 1, NumPins}

SpecPort ==
    Init /\ [][PortNext(TestPins)]_vars

PinsNext ==
    \/ SimNew
    \/ \E name \in PortNames : SimPort(name)
    \/ \E at \in PortObjAddrs, p \in 0 .. NumPins : MayAsk(at, p, MaxHeld) /\ PortPin(at, p)
    \/ \E h \in Handles : PinDrop(h)
    \/ \E h \in Handles : MakeGpio(h)
    \/ \E h \in Handles : MakeRx(h)
    \/ \E h \in Handles : MakeTx(h)

SpecPins ==
    Init /\ [][PinsNext]_vars

(* set_dividers over every triple of divisors a 4-bit field can hold, on   *)
(* a divider register that holds nothing, its reset value, or all ones.    *)
Divisors == 1 .. 16

PriorDividers ==
    {Zero32, SetBits32(Zero32, 16, 17, 1), [i \in 0 .. 31 |-> 1]}

InitDividers ==
    /\ InitRest
    /\ clkdiv1 \in PriorDividers
    /\ InitFei

(* As in main, the dividers are set once, on the Sim just made.            *)
DividersNext ==
    \/ SimNew
    \/ /\ call.op = "Sim::new"
       /\ \E core \in Divisors, bus \in Divisors, flash \in Divisors :
            SetDividers(core, bus, flash)

SpecDividers ==
    InitDividers /\ [][DividersNext]_vars

(* Two callers interleaved inside the guarded constructors.                *)
SpecRace ==
    Init /\ [][RaceNext]_vars

(* main.rs: the clock bring-up of main(), one call after the other.  The   *)
(* last call made tells where main is.                                     *)
MainMcgNew ==
    call.op = "none" /\ McgNew

MainClock ==
    call.op = "Mcg::new" /\ McgClock

MainEnableXtal ==
    /\ call.op = "clock"
    /\ Idle
    /\ IF BagIn("Fei", mcgs)
         THEN EnableXtal(VeryHigh)
         ELSE /\ fatal' = "NotFei"
              /\ UNCHANGED <<mcgVars, simVars, portVars, call, seen, racers>>

MainUseExternal ==
    call.op = "enable_xtal" /\ UseExternal(512)

MainEnablePll ==
    call.op = "use_external" /\ EnablePll(27, 6)

MainUsePll ==
    call.op = "enable_pll" /\ UsePll

MainStep ==
    \/ MainMcgNew
    \/ MainClock
    \/ MainEnableXtal
    \/ MainUseExternal
    \/ MainEnablePll
    \/ MainUsePll
    \/ McgWaits

MainNext ==
    MainStep \/ Hardware

(* The processor keeps executing main, and the clock generator in the end  *)
(* asserts each status field its control registers ask for.                *)
(* Internal-reference hardware: the fields clock() and the waits read say  *)
(* so; the reference divider and status bits 0, 1 and 7 hold anything.     *)
InitMain ==
    /\ InitRest
    /\ InitClkdiv
    /\ c1 \in { SetBits(SetBit(0, 2, TRUE), 3, 6, frdiv) : frdiv \in 0 .. 7 }
    /\ c2 = 0
    /\ c5 = 0
    /\ c6 = 0
    /\ s \in { v \in Byte : /\ GetBit(v, 4)
                            /\ GetBits(v, 2, 4) = 0
                            /\ ~GetBit(v, 5)
                            /\ ~GetBit(v, 6) }

SpecMain ==
    /\ InitMain
    /\ [][MainNext]_vars
    /\ WF_vars(MainStep)
    /\ WF_vars(Hardware)

----------------------------------------------------------------------------
(* Properties.                                                             *)

(* The live handles (bare Pins and capabilities) for pin p of the Port at. *)
Held(at, p) ==
    { h \in Handles : h.port = at /\ h.pin = p }

(* C1: for every pin number n in 0..31, pin(n) while a handle for n is     *)
(* live is fatal (Already-initialized) and yields no handle; pin(n) while  *)
(* no handle for n is live (never acquired, or released since) succeeds    *)
(* and yields exactly one new handle for n.                                *)
PinAcquireOnce ==
    [][call'.op = "pin" /\ call'.args[2] \in PinNumbers =>
         LET at == call'.args[1]
             n == call'.args[2]
         IN  IF Held(at, n) # {}
               THEN fatal' = "AlreadyInitialized" /\ pins' = pins
               ELSE /\ fatal' = "none"
                    /\ pins' = pins (+) One(PinHandle(at, n))
                    /\ CopiesIn(PinHandle(at, n), pins') = 1]_vars

(* C1 witness: the last pin of a port was asked for while its handle was   *)
(* live, and the call was fatal.                                           *)
PinAcquiredTwice ==
    /\ call.op = "pin"
    /\ call.args[2] = NumPins - 1
    /\ Held(call.args[1], NumPins - 1) # {}
    /\ fatal = "AlreadyInitialized"

(* C2: Sim::new and Mcg::new are fatal (Already-initialized) while an      *)
(* instance is live and succeed when none is; at most one instance of      *)
(* each singleton is live in every reachable state.                        *)
SingletonsUnique ==
    /\ [](sims <= 1 /\ McgLive <= 1)
    /\ [][SimNew =>
            IF sims > 0 THEN fatal' = "AlreadyInitialized" /\ sims' = sims
                        ELSE fatal' = "none" /\ sims' = 1]_vars
    /\ [][McgNew =>
            IF McgLive > 0 THEN fatal' = "AlreadyInitialized" /\ McgLive' = McgLive
                           ELSE fatal' = "none" /\ McgLive' = 1]_vars

(* C2 witness: both singletons are live again after the clock chain ran to *)
(* its end (where its handle was dropped), and a further Mcg::new failed.  *)
SingletonRetried ==
    /\ sims = 1
    /\ McgLive = 1
    /\ GetBits(s, 2, 4) = 3
    /\ call.op = "Mcg::new"
    /\ fatal = "AlreadyInitialized"

(* The form of the handle clock() returned, "panic" when it was fatal.     *)
ClockReturned ==
    IF fatal # "none" THEN "panic"
    ELSE CHOOSE form \in McgForms : BagIn(form, mcgs)

(* C3: clock() gives internal-reference iff (internal, PLL off, selector   *)
(* locked-loop), external-reference iff (external, PLL off, selector       *)
(* external), PLL-locked iff (PLL on, selector external), and is fatal     *)
(* for every other combination, whatever the two selector bits hold.       *)
ClockClassifies ==
    call.op = "clock" =>
      LET internal == GetBit(c1, 2)
          pll == GetBit(c6, 6)
          selector == GetBits(c1, 6, 8)
      IN  ClockReturned =
            (CASE internal /\ ~pll /\ selector = 0 -> "Fei"
               [] ~internal /\ ~pll /\ selector = 2 -> "Fbe"
               [] pll /\ selector = 2 -> "Pbe"
               [] OTHER -> "panic")

LowRatios == <<1, 2, 4, 8, 16, 32, 64, 128>>
HighRatios == <<32, 64, 128, 256, 512, 1024, 1280, 1536>>

(* C4: use_external(ratio) writes the 3-bit divider code k when ratio is   *)
(* entry k (from 0) of the table of the programmed range: 1, 2, 4, ...,    *)
(* 128 under low range, 32, 64, 128, 256, 512, 1024, 1280, 1536 under high *)
(* or very-high range; every other ratio is fatal (Invalid-parameter).     *)
DividerCode ==
    call.op = "use_external" =>
      LET ratio == call.args[1]
          table == IF GetBits(c2, 4, 6) = 0 THEN LowRatios ELSE HighRatios
      IN  IF \E k \in 1 .. 8 : table[k] = ratio
            THEN /\ fatal = "none"
                 /\ table[GetBits(c1, 3, 6) + 1] = ratio
            ELSE fatal = "InvalidParameter"

(* C4 witness: under very-high range the ratio 1280 was written as code 6, *)
(* and the call has returned.                                              *)
DividerCodeWritten ==
    /\ call = Call("use_external", <<1280>>)
    /\ GetBits(c2, 4, 6) = 2
    /\ GetBits(c1, 3, 6) = 6
    /\ BagIn("Fbe", mcgs)

(* C5: enable_pll(numerator, denominator) is accepted exactly when         *)
(* 24 <= numerator <= 55 and 1 <= denominator <= 25 and is fatal           *)
(* (Invalid-parameter) for every other pair of 8-bit values; accepted, it  *)
(* writes denominator-1 and numerator-24 into the two 5-bit fields and     *)
(* sets the PLL-enable bit.                                                *)
PllFactors ==
    call.op = "enable_pll" =>
      LET numerator == call.args[1]
          denominator == call.args[2]
      IN  IF numerator \in 24 .. 55 /\ denominator \in 1 .. 25
            THEN /\ fatal = "none"
                 /\ GetBits(c5, 0, 5) = denominator - 1
                 /\ GetBits(c6, 0, 5) = numerator - 24
                 /\ GetBit(c6, 6)
            ELSE fatal = "InvalidParameter"

(* C5 witness: the largest accepted factors were written and the PLL has   *)
(* locked.                                                                 *)
PllFactorsWritten ==
    /\ call = Call("enable_pll", <<55, 25>>)
    /\ GetBits(c5, 0, 5) = 24
    /\ GetBits(c6, 0, 5) = 31
    /\ BagIn("Pbe", mcgs)

(* C6: converting a held Pin to serial-receive succeeds exactly for pin 16 *)
(* of port B, to serial-transmit exactly for pin 17 of port B; for every   *)
(* other (port, pin) the conversion is fatal.                              *)
SerialPins ==
    /\ call.op = "make_rx" =>
         LET h == call.args[1]
         IN  fatal = "none" <=> (RegsName(h.port) = "B" /\ h.pin = 16)
    /\ call.op = "make_tx" =>
         LET h == call.args[1]
         IN  fatal = "none" <=> (RegsName(h.port) = "B" /\ h.pin = 17)

MainDone ==
    call.op = "use_pll" /\ pc = "idle"

(* C7: from the internal-reference state, main's chain (very-high range,   *)
(* divider 512, PLL 27/6) against hardware that eventually asserts each    *)
(* polled field never takes a fatal path, holds internal-reference, then   *)
(* external-reference, then PLL-locked, and then reaches its end.          *)
BringUpCompletes ==
    /\ [](fatal = "none")
    /\ <>(BagIn("Fei", mcgs)
          /\ <>(BagIn("Fbe", mcgs)
                /\ <>(BagIn("Pbe", mcgs) /\ <>MainDone)))

(* C7 witness: use_pll has returned with the status source field reading   *)
(* the PLL's code and the configuration main asked for in the registers.   *)
BringUpDone ==
    /\ MainDone
    /\ fatal = "none"
    /\ GetBits(s, 2, 4) = 3
    /\ GetBits(c2, 4, 6) = 2
    /\ GetBits(c1, 3, 6) = 4
    /\ GetBits(c6, 0, 5) = 3
    /\ GetBits(c5, 0, 5) = 5

(* C8: output, high and low on the Gpio for pin n write one bit-band word  *)
(* and no other: word n of the direction, the set and the clear array of   *)
(* the block of the pin's port (arrays 5, 1 and 2 of 32 four-byte words).  *)
GpioWritesOneWord ==
    call.op \in {"output", "high", "low"} =>
      LET h == call.args[1]
          block == IF RegsName(h.port) = "C" THEN GPIOC ELSE GPIOB
          array == CASE call.op = "output" -> 5
                     [] call.op = "high" -> 1
                     [] call.op = "low" -> 2
      IN  wr = {<<block + 128 * array + 4 * h.pin, 1>>}

(* C8 witness: pin 17 of a port was driven high while the Gpio of pin 16   *)
(* of the same port was live.                                              *)
GpioNextToGpio ==
    /\ call.op = "high"
    /\ call.args[1].pin = 17
    /\ \E h \in Held(call.args[1].port, 16) : h.as = "Gpio"
    /\ wr # {}

(* The live ClockGate handles for gate word g: those inside Ports and      *)
(* inside Uarts.                                                           *)
GateHolders(g) ==
    Cardinality({ at \in PortObjAddrs : PortLive(at) /\ ports[at].gate = g })
      + CopiesIn(g, uarts)

(* C9: for each clock-gate bit (port B, port C, serial unit 0) at most one *)
(* ClockGate handle is live and the bit is set exactly while it is; a      *)
(* request while the bit is set is fatal and yields no handle, a request   *)
(* while it is clear sets it and yields one, a release clears it.          *)
GateExclusive ==
    /\ [](\A g \in GateAddrs :
            GateHolders(g) <= 1 /\ (gate[g] # 0 <=> GateHolders(g) = 1))
    /\ [][\A g \in GateAddrs :
            /\ call'.op \in {"Sim::port", "Sim::uart"} /\ gate[g] # 0
                 => GateHolders(g)' = GateHolders(g)
            /\ call'.op = "Sim::port" /\ PortGate(call'.args[1]) = g
                 => IF gate[g] # 0 THEN fatal' = "AlreadyInitialized"
                                   ELSE fatal' = "none" /\ gate'[g] = 1
            /\ call'.op = "Sim::uart" /\ call'.args[1] = 0 /\ UartGate = g
                 => IF gate[g] # 0 THEN fatal' = "AlreadyInitialized"
                                   ELSE fatal' = "none" /\ gate'[g] = 1
            /\ GateHolders(g)' < GateHolders(g) => gate'[g] = 0]_vars

(* C9 witness: all three gates are held, and a second request for port B   *)
(* was fatal.                                                              *)
GateRequestedTwice ==
    /\ \A g \in GateAddrs : gate[g] = 1 /\ GateHolders(g) = 1
    /\ call = Call("Sim::port", <<"B">>)
    /\ fatal = "AlreadyInitialized"

(* C10: a port's in-use flag for pin n is true iff a live handle for n     *)
(* exists, bare Pin or capability; a conversion leaves the flag set, and   *)
(* the flag is cleared only by the release of the Pin or capability.       *)
FlagIffHandle ==
    /\ [](\A at \in PortObjAddrs, n \in PinNumbers :
            ports[at].locks[n] <=> Held(at, n) # {})
    /\ [][/\ call'.op \in {"Gpio::new", "make_gpio", "make_rx", "make_tx"}
              => \A at \in PortObjAddrs : ports'[at].locks = ports[at].locks
          /\ \A at \in PortObjAddrs :
               ports'[at].locks # ports[at].locks =>
                 \A n \in PinNumbers :
                   ports[at].locks[n] /\ ~ports'[at].locks[n]
                     => call'.op = "drop" /\ Held(at, n)' = {}]_vars

(* C10 witness: a Pin was converted into a Gpio, and the flag of its pin   *)
(* is set while the Gpio is the only handle for it.                        *)
FlagHeldByGpio ==
    /\ call.op = "Gpio::new"
    /\ \E at \in PortObjAddrs :
         /\ ports[at].locks[16]
         /\ \A h \in Held(at, 16) : h.as = "Gpio"

(* The owners of a guarded resource: the handles made for it and the       *)
(* callers that passed the swap with the flag clear and are about to get   *)
(* theirs.                                                                 *)
Owners(target) ==
    Cardinality({ t \in Callers : /\ racers[t].pc = "check"
                                   /\ racers[t].target = target
                                   /\ ~racers[t].was_init })
      + (CASE target[1] = "Sim" -> sims
           [] target[1] = "Mcg" -> BagCardinality(mcgs)
           [] target[1] = "pin" -> CopiesIn(PinHandle(target[2], target[3]), pins))

RaceTargets ==
    {<<"Sim">>, <<"Mcg">>}
      \cup { <<"pin", at, p>> : at \in PortObjAddrs, p \in RacePins }

(* C11: when two callers interleave inside Sim::new, inside Mcg::new or    *)
(* inside pin(n) of the same port and pin, at most one of them saw the     *)
(* guard flag clear and at most one handle exists, in every interleaving.  *)
RaceExclusive ==
    \A target \in RaceTargets : Owners(target) <= 1

(* C11 witness: both callers are between the swap and the test inside      *)
(* pin(31) of the same port; one saw the flag clear, the other saw it set. *)
RaceInFlight ==
    /\ racers["main"].pc = "check"
    /\ racers["isr"].pc = "check"
    /\ racers["main"].target = racers["isr"].target
    /\ racers["main"].target[1] = "pin"
    /\ racers["main"].target[3] = NumPins - 1
    /\ racers["main"].was_init # racers["isr"].was_init

(* C12: from the internal-reference state, whatever the driver's own      *)
(* operations have done (Mcg::new, clock, the four transitions, drops), a  *)
(* later Mcg::new().clock() is never fatal with the hardware state         *)
(* unrepresentable.                                                        *)
ClockRepresentable ==
    ~(call.op = "clock" /\ fatal = "Unrepresentable")

(* C13: in every execution from the internal-reference state, the write   *)
(* of enable_pll that selects the PLL comes only after use_external has    *)
(* written the external selector and its wait has read the status source   *)
(* field as external, also when the handle came from a drop and a new      *)
(* Mcg::new().clock().                                                     *)
PllAfterExternal ==
    [][pc = "idle" /\ pc' = "enable_pll.pllst" =>
         /\ {"clks := external", "clkst = external"} \subseteq seen
         /\ GetBits(c1, 6, 8) = External
         /\ GetBit(c6', 6)]_vars

(* C13 witness: enable_pll has written the PLL select bit through a handle *)
(* that clock() gave after the handle of use_external was dropped.         *)
PllEnabledAfterRequery ==
    /\ call.op = "enable_pll"
    /\ pc = "enable_pll.pllst"
    /\ GetBit(c6, 6)
    /\ "Fbe" \in seen

(* C14: in every execution from the internal-reference state, use_pll     *)
(* writes the source selector to the locked loop only after the waits of   *)
(* enable_pll have read the PLL-selected and the PLL-locked status bits    *)
(* set, also when the Pbe came from a drop and a new Mcg::new().clock().   *)
UsePllAfterLock ==
    [][pc = "idle" /\ pc' = "use_pll.clkst" =>
         /\ {"pllst", "lock0"} \subseteq seen
         /\ GetBit(c6, 6)
         /\ GetBits(c1', 6, 8) = LockedLoop]_vars

(* C14 witness: use_pll has written the selector through a Pbe that        *)
(* clock() gave after the Pbe of enable_pll was dropped.                   *)
UsePllAfterRequery ==
    /\ call.op = "use_pll"
    /\ pc = "use_pll.clkst"
    /\ GetBits(c1, 6, 8) = LockedLoop
    /\ "Pbe" \in seen

(* What the wait at position w polls for, in the status register.          *)
Polled(w) ==
    CASE w = "enable_xtal.osc" -> GetBit(s, 1)
      [] w = "use_external.irefst" -> ~GetBit(s, 4)
      [] w = "use_external.clkst" -> GetBits(s, 2, 4) = 2
      [] w = "enable_pll.pllst" -> GetBit(s, 5)
      [] w = "enable_pll.lock" -> GetBit(s, 6)
      [] w = "use_pll.clkst" -> GetBits(s, 2, 4) = 3

Waits ==
    {"enable_xtal.osc", "use_external.irefst", "use_external.clkst",
     "enable_pll.pllst", "enable_pll.lock", "use_pll.clkst"}

(* C15: a busy-wait is left only when the status bit or field it polls is  *)
(* asserted; until then the transition does not return, gives no handle    *)
(* and is not fatal, and when the hardware never asserts it the driver     *)
(* stays in that wait for ever.                                            *)
WaitsNeverTimeOut ==
    /\ [][(pc \in Waits) =>
            (/\ fatal' = "none"
             /\ ~Polled(pc) =>
                  (pc' = pc /\ mcgs' = mcgs /\ MCG_INIT' = MCG_INIT))]_vars
    /\ \A w \in Waits :
         [](pc = w => ([]~Polled(w) => [](pc = w /\ fatal = "none")))

(* C15 witness: use_pll is waiting, the status source field not reading    *)
(* the PLL's code.                                                         *)
WaitingOnHardware ==
    /\ pc = "use_pll.clkst"
    /\ ~Polled(pc)
    /\ fatal = "none"
    /\ BagCardinality(mcgs) = 0

(* C16: make_gpio on a held Pin is never fatal, sets the mux-select field  *)
(* (bits 8..10) of that pin's control register to 1 and gives a Gpio for   *)
(* the same pin number, bound to the bit-band block of the pin's port.     *)
MakeGpioSucceeds ==
    call.op = "make_gpio" =>
      LET h == call.args[1]
      IN  /\ fatal = "none"
          /\ GetBits(pcr[ports[h.port].reg][h.pin], 8, 11) = 1
          /\ BagIn(GpioNewHandle(RegsName(h.port), h), pins)

(* C17: for core, bus and flash in 1..16, set_dividers leaves the 32-bit   *)
(* divider register with core-1 in bits 28..31, bus-1 in bits 24..27,      *)
(* flash-1 in bits 16..19 and every other bit zero, whatever it held.      *)
DividersPacked ==
    call.op = "set_dividers" =>
      LET core == call.args[1]
          bus == call.args[2]
          flash == call.args[3]
      IN  /\ GetBits32(clkdiv1, 28, 32) = core - 1
          /\ GetBits32(clkdiv1, 24, 28) = bus - 1
          /\ GetBits32(clkdiv1, 16, 20) = flash - 1
          /\ \A i \in (0 .. 15) \cup (20 .. 23) : clkdiv1[i] = 0

(* C17 witness: the largest core and flash divisors with the smallest bus  *)
(* divisor were written: 0xF00F0000.                                       *)
DividersWritten ==
    /\ call = Call("set_dividers", <<16, 1, 16>>)
    /\ clkdiv1 = [i \in 0 .. 31 |-> IF i \in (16 .. 19) \cup (28 .. 31) THEN 1 ELSE 0]

(* The live Ports made for the register block of a name.                   *)
PortsNamed(name) ==
    { at \in PortObjAddrs : PortLive(at) /\ RegsName(at) = name }

(* C18: with ports made by Sim::port only, at most one Port is live per    *)
(* port name and at most one live Pin or capability refers to a physical   *)
(* (port, pin), whatever Sims were dropped and made while a Port was live. *)
OnePortPerName ==
    /\ \A name \in PortNames : Cardinality(PortsNamed(name)) <= 1
    /\ \A h \in Handles :
         /\ PortLive(h.port)
         /\ CopiesIn(h, pins) = 1
         /\ \A g \in Handles :
              (RegsName(g.port) = RegsName(h.port) /\ g.pin = h.pin) => g = h

(* C18 witness: a Port B with a Gpio on its pin 16 is live, and a request  *)
(* for another Port B was fatal.                                           *)
SecondPortRefused ==
    /\ call = Call("Sim::port", <<"B">>)
    /\ fatal = "AlreadyInitialized"
    /\ sims = 1
    /\ \E h \in Handles : RegsName(h.port) = "B" /\ h.pin = 16 /\ h.as = "Gpio"

Variants == {"Fei", "Fbe", "Pbe"}

(* C19: while a variant V is held (enable_xtal has returned on a Fei,      *)
(* use_external has returned a Fbe, enable_pll a Pbe) the registers are    *)
(* those clock() classifies as V and nothing else; the guard flag is set   *)
(* from Mcg::new through every transition; the drop of V clears it with    *)
(* the registers untouched, so that Mcg::new succeeds and clock() on the   *)
(* new handle gives V again.                                               *)
VariantRequeried ==
    /\ [](\A form \in Variants :
            BagIn(form, mcgs) => ClockOutcomes(c1, c6) = {form})
    /\ [](McgLive > 0 => MCG_INIT)
    /\ [][\A form \in Variants :
            call'.op = "drop" /\ BagIn(form, mcgs) /\ ~BagIn(form, mcgs') =>
              /\ ~MCG_INIT'
              /\ ClockOutcomes(c1', c6') = {form}]_vars
    /\ [][call'.op = "Mcg::new" /\ ~MCG_INIT =>
            fatal' = "none" /\ BagIn("Mcg", mcgs')]_vars
    /\ [][call'.op = "clock" /\ call.op = "Mcg::new" /\ fatal' = "none" =>
            \A form \in Variants : ClockOutcomes(c1, c6) = {form} => BagIn(form, mcgs')]_vars

(* C19 witness: clock() on a new handle gave Pbe, after enable_pll had     *)
(* returned the Pbe that was dropped since.                                *)
PbeRequeried ==
    /\ call.op = "clock"
    /\ fatal = "none"
    /\ mcgs = One("Pbe")
    /\ "lock0" \in seen

(* C20: a use_external or enable_pll call with an invalid parameter is     *)
(* fatal (Invalid-parameter) with the control registers C1, C2, C5 and C6  *)
(* holding what they held before the call: nothing is written first.       *)
RejectedBeforeWrite ==
    [][/\ (pc = "idle" /\ fatal = "none" /\ call'.op = "use_external"
             /\ LET table == IF GetBits(c2, 4, 6) = 0 THEN LowRatios ELSE HighRatios
                IN  \A k \in 1 .. 8 : table[k] # call'.args[1])
          => (fatal' = "InvalidParameter" /\ <<c1, c2, c5, c6>>' = <<c1, c2, c5, c6>>)
       /\ (pc = "idle" /\ fatal = "none" /\ call'.op = "enable_pll"
             /\ ~(call'.args[1] \in 24 .. 55 /\ call'.args[2] \in 1 .. 25))
          => (fatal' = "InvalidParameter" /\ <<c1, c2, c5, c6>>' = <<c1, c2, c5, c6>>)
       /\ (fatal = "none" /\ fatal' = "InvalidParameter")
          => (<<c1, c2, c5, c6>>' = <<c1, c2, c5, c6>> /\ pc' = "idle")]_vars

(* C20 witness: enable_pll was refused for its numerator, with the         *)
(* external reference selected and nothing in the PLL registers.           *)
PllRefusedUnwritten ==
    /\ call = Call("enable_pll", <<56, 25>>)
    /\ fatal = "InvalidParameter"
    /\ GetBits(c1, 6, 8) = External
    /\ c5 = 0
    /\ c6 = 0

====
